---- MODULE Spec2Model ----
(***************************************************************************)
(* Model of the event-merging and interaction core of ratatui_demo:        *)
(* src/src/app.rs (App, AppEvent, App::start, App::run, handle_ui_event,   *)
(* update_progress_bar, draw/render, progress_task) and src/src/tui.rs     *)
(* (input_thread).                                                         *)
(*                                                                         *)
(* Option<T> is modelled as a sequence: None is <<>>, Some(x) is <<x>>.    *)
(* A (line, column) pair is the tuple <<line, column>>.                    *)
(***************************************************************************)
EXTENDS Integers, Sequences, FiniteSets, TLC

VARIABLES
    input,            \* App.input: tui_input::Input, [value, cursor]
    mode,             \* App.mode: "Run" | "Quit"
    progress_counter, \* App.progress_counter: Option<u16>
    input_rect,       \* App.input_rect: Rect
    console_rect,     \* App.console_rect: Rect
    focus_mode,       \* App.focus_mode: "Input" | "Console"
    messages,         \* App.messages: Vec<String>
    selection_start,  \* App.selection_start: Option<(usize, usize)>
    selection_end,    \* App.selection_end: Option<(usize, usize)>
    dragging,         \* App.dragging: bool
    frame,            \* the console cells the last render pass highlighted
    event,            \* the loop variable `event` of App::run in this iteration
    main_pc,          \* position of the main thread in App::run
    queue,            \* the mpsc channel: events sent and not yet received
    rx_alive,         \* the Receiver has not been dropped
    input_pc,         \* position of the thread running input_thread
    progress_pc,      \* position of the thread running progress_task
    progress_next     \* the loop variable `progress` of progress_task

app_vars == <<input, mode, progress_counter, input_rect, console_rect, focus_mode,
              messages, selection_start, selection_end, dragging>>
thread_vars == <<queue, rx_alive, input_pc, progress_pc, progress_next>>
vars == <<app_vars, frame, event, main_pc, thread_vars>>

----------------------------------------------------------------------------
(* Bounds of the model. *)

\* columns of the terminal
TermW == 4
\* rows of the terminal
TermH == 6
\* longest text typed into the input line
MaxInputLen == 1
\* most messages pushed to the console
MaxMessages == 1
\* most events waiting in the channel
MaxQueue == 2
\* most console lines of a render pass checked on its own
RenderLines == 5
\* longest console line of a render pass checked on its own
RenderCols == 3

(* Program constants. *)

\* u16 arithmetic wraps at 2^16 in a release build
U16 == 65536
\* progress_task: for progress in 0..100
ProgressEnd == 100
\* Layout::horizontal([Percentage(25), Percentage(75)])
LeftPercent == 25
\* Constraint::Length(3) of the input row
InputHeight == 3

----------------------------------------------------------------------------
(* Option, Rect, events. *)

None == <<>>
Some(x) == <<x>>

Rect(x, y, w, h) == [x |-> x, y |-> y, width |-> w, height |-> h]
\* Rect::default()
ZeroRect == Rect(0, 0, 0, 0)

\* the characters the keyboard can type
Chars == {"a"}

NoEvent ==
    [tag |-> "None", type |-> "-", kind |-> "-", row |-> 0, column |-> 0,
     code |-> "-", value |-> None]
MouseEvent(kind, row, col) ==
    [tag |-> "UiEvent", type |-> "Mouse", kind |-> kind, row |-> row, column |-> col,
     code |-> "-", value |-> None]
KeyEvent(code) ==
    [tag |-> "UiEvent", type |-> "Key", kind |-> "-", row |-> 0, column |-> 0,
     code |-> code, value |-> None]
CounterChanged(v) ==
    [tag |-> "CounterChanged", type |-> "-", kind |-> "-", row |-> 0, column |-> 0,
     code |-> "-", value |-> v]

\* MouseEventKind with its button; "DownRight" stands for every kind the
\* handler's `_ => {}` arm takes.
MouseKinds == {"DownLeft", "DragLeft", "UpLeft", "DownRight"}
KeyCodes == {"Esc", "Tab", "Enter", "Backspace"} \cup Chars

\* The rows the pointer visits: those of the console and the first row of
\* the input box below it (the handler treats the box's three rows alike).
PointerRows == 0..(TermH - InputHeight)

\* The handler reads the position of a left-button down or drag only; the
\* other kinds are produced at the origin.
MouseEvents ==
    {MouseEvent(k, r, c) :
        k \in {"DownLeft", "DragLeft"}, r \in PointerRows, c \in 0..(TermW - 1)}
    \cup {MouseEvent(k, 0, 0) : k \in MouseKinds}
KeyEvents == {KeyEvent(k) : k \in KeyCodes}
UiEvents == MouseEvents \cup KeyEvents


----------------------------------------------------------------------------
(* The application state as one record, so that the steps of a handler    *)
(* compose in program order.  `panicked` is set when an arithmetic        *)
(* overflow check of a debug build fails inside the handler.              *)

AppState ==
    [input |-> input, mode |-> mode, progress_counter |-> progress_counter,
     input_rect |-> input_rect, console_rect |-> console_rect,
     focus_mode |-> focus_mode, messages |-> messages,
     selection_start |-> selection_start, selection_end |-> selection_end,
     dragging |-> dragging, panicked |-> FALSE]

\* App::new
NewApp ==
    [input |-> [value |-> <<>>, cursor |-> 0], mode |-> "Run",
     progress_counter |-> None, input_rect |-> ZeroRect, console_rect |-> ZeroRect,
     focus_mode |-> "Input", messages |-> <<>>,
     selection_start |-> None, selection_end |-> None,
     dragging |-> FALSE, panicked |-> FALSE]

\* The two ways rustc compiles `a - b` on u16: with overflow checks (a
\* debug build panics on underflow) or without (a release build wraps).
Builds == {"debug", "release"}

\* u16 subtraction of a release build
WrappingSub(a, b) == (a - b) % U16

\* App::rect_contains
rect_contains(rect, row, col) ==
    /\ row >= rect.y
    /\ row < rect.y + rect.height
    /\ col >= rect.x
    /\ col < rect.x + rect.width

\* Mutant of RelativePos: the absolute position, the region's origin not
\* subtracted.
RelativePos_Absolute(rect, row, col) == <<row, col>>

\* (relative_row as usize, relative_col as usize)
RelativePos(rect, row, col) ==
    <<WrappingSub(row, rect.y), WrappingSub(col, rect.x)>>

\* Mutant of MouseDown: a click outside both regions focuses the console.
MouseDown_OutsideFocusesConsole(a, row, col) ==
    IF rect_contains(a.input_rect, row, col)
    THEN [a EXCEPT !.focus_mode = "Input", !.dragging = FALSE]
    ELSE IF rect_contains(a.console_rect, row, col)
    THEN [a EXCEPT !.focus_mode = "Console",
                   !.selection_start = Some(RelativePos(a.console_rect, row, col)),
                   !.selection_end = Some(RelativePos(a.console_rect, row, col)),
                   !.dragging = TRUE]
    ELSE [a EXCEPT !.focus_mode = "Console",
                   !.selection_start = None,
                   !.selection_end = None,
                   !.dragging = FALSE]

\* Mutant of MouseDown: a click outside both regions clears selection_start
\* and dragging but leaves selection_end.
MouseDown_OutsideKeepsEnd(a, row, col) ==
    IF rect_contains(a.input_rect, row, col)
    THEN [a EXCEPT !.focus_mode = "Input", !.dragging = FALSE]
    ELSE IF rect_contains(a.console_rect, row, col)
    THEN [a EXCEPT !.focus_mode = "Console",
                   !.selection_start = Some(RelativePos(a.console_rect, row, col)),
                   !.selection_end = Some(RelativePos(a.console_rect, row, col)),
                   !.dragging = TRUE]
    ELSE [a EXCEPT !.selection_start = None,
                   !.dragging = FALSE]

\* MouseEventKind::Down(MouseButton::Left)
MouseDown(a, row, col) ==
    IF rect_contains(a.input_rect, row, col)
    THEN [a EXCEPT !.focus_mode = "Input", !.dragging = FALSE]
    ELSE IF rect_contains(a.console_rect, row, col)
    THEN [a EXCEPT !.focus_mode = "Console",
                   !.selection_start = Some(RelativePos(a.console_rect, row, col)),
                   !.selection_end = Some(RelativePos(a.console_rect, row, col)),
                   !.dragging = TRUE]
    ELSE [a EXCEPT !.selection_start = None,
                   !.selection_end = None,
                   !.dragging = FALSE]

\* Mutant of MouseDrag: the drag moves selection_start instead of
\* selection_end.
MouseDrag_MovesStart(a, row, col, build) ==
    IF a.dragging /\ a.focus_mode = "Console"
    THEN IF build = "debug" /\ (row < a.console_rect.y \/ col < a.console_rect.x)
         THEN [a EXCEPT !.panicked = TRUE]
         ELSE [a EXCEPT !.selection_start = Some(RelativePos(a.console_rect, row, col))]
    ELSE a

\* MouseEventKind::Drag(MouseButton::Left)
MouseDrag(a, row, col, build) ==
    IF a.dragging /\ a.focus_mode = "Console"
    THEN IF build = "debug" /\ (row < a.console_rect.y \/ col < a.console_rect.x)
         THEN [a EXCEPT !.panicked = TRUE]
         ELSE [a EXCEPT !.selection_end = Some(RelativePos(a.console_rect, row, col))]
    ELSE a

\* Mutant of MouseUp: releasing the button also drops the selection.
MouseUp_ClearsSelection(a) ==
    [a EXCEPT !.dragging = FALSE, !.selection_start = None, !.selection_end = None]

\* MouseEventKind::Up(MouseButton::Left)
MouseUp(a) == [a EXCEPT !.dragging = FALSE]

\* handle_ui_event, `if let Event::Mouse(mouse_event) = event`
OnMouse(a, ev, build) ==
    CASE ev.kind = "DownLeft" -> MouseDown(a, ev.row, ev.column)
      [] ev.kind = "DragLeft" -> MouseDrag(a, ev.row, ev.column, build)
      [] ev.kind = "UpLeft" -> MouseUp(a)
      [] OTHER -> a

\* tui_input::Input::reset
InputReset(inp) == [value |-> <<>>, cursor |-> 0]

\* tui_input::Input::handle_event for a key event: a character is inserted at
\* the cursor, Backspace deletes the character before it; Enter, Esc and Tab
\* are no editing request.
InputHandleEvent(inp, code) ==
    LET n == Len(inp.value)
        c == inp.cursor
    IN  CASE code \in Chars ->
               [value |-> SubSeq(inp.value, 1, c) \o <<code>> \o SubSeq(inp.value, c + 1, n),
                cursor |-> c + 1]
          [] code = "Backspace" /\ c > 0 ->
               [value |-> SubSeq(inp.value, 1, c - 1) \o SubSeq(inp.value, c + 1, n),
                cursor |-> c - 1]
          [] OTHER -> inp

\* Mutant of KeyConsole: Tab also clears the selection.
KeyConsole_TabClearsSelection(a, code) ==
    CASE code = "Esc" -> [a EXCEPT !.selection_start = None, !.selection_end = None]
      [] code = "Tab" -> [a EXCEPT !.focus_mode = "Input",
                                   !.selection_start = None,
                                   !.selection_end = None]
      [] OTHER -> a

\* Mutant of KeyConsole: Esc clears selection_start only.
KeyConsole_EscKeepsEnd(a, code) ==
    CASE code = "Esc" -> [a EXCEPT !.selection_start = None]
      [] code = "Tab" -> [a EXCEPT !.focus_mode = "Input"]
      [] OTHER -> a

\* handle_ui_event, `if self.focus_mode == FocusMode::Console`
KeyConsole(a, code) ==
    CASE code = "Esc" -> [a EXCEPT !.selection_start = None, !.selection_end = None]
      [] code = "Tab" -> [a EXCEPT !.focus_mode = "Input"]
      [] OTHER -> a

\* Mutant of KeyEnter: the input is reset before its value is pushed.
KeyEnter_ResetFirst(a) ==
    [a EXCEPT !.messages = Append(a.messages, InputReset(a.input).value),
              !.input = InputReset(a.input)]

\* KeyCode::Enter arm of the Input-focused match
KeyEnter(a) ==
    [a EXCEPT !.messages = Append(a.messages, a.input.value),
              !.input = InputReset(a.input)]

\* handle_ui_event, `if self.focus_mode == FocusMode::Input`
KeyInput(a, code) ==
    LET a1 == CASE code = "Enter" -> KeyEnter(a)
                [] code = "Esc" -> [a EXCEPT !.mode = "Quit"]
                [] OTHER -> a
    IN  [a1 EXCEPT !.input = InputHandleEvent(a1.input, code)]

\* Mutant of OnKey: the Input branch runs whatever the focus is.
OnKey_NoFocusGate(a, code) ==
    LET a1 == IF a.focus_mode = "Console" THEN KeyConsole(a, code) ELSE a
    IN  KeyInput(a1, code)

\* handle_ui_event, `if let Event::Key(key) = event`: the Console branch
\* runs first and the Input branch then tests the focus it left.
OnKey(a, code) ==
    LET a1 == IF a.focus_mode = "Console" THEN KeyConsole(a, code) ELSE a
    IN  IF a1.focus_mode = "Input" THEN KeyInput(a1, code) ELSE a1

\* App::handle_ui_event
handle_ui_event(a, ev, build) ==
    LET a1 == IF ev.type = "Mouse" THEN OnMouse(a, ev, build) ELSE a
    IN  IF ev.type = "Key" /\ ~a1.panicked THEN OnKey(a1, ev.code) ELSE a1

\* Mutant of update_progress_bar: only a Some value is stored.
update_progress_bar_IgnoresNone(a, value) ==
    IF value = None THEN a ELSE [a EXCEPT !.progress_counter = value]

\* App::update_progress_bar
update_progress_bar(a, value) == [a EXCEPT !.progress_counter = value]

\* The match of App::run on the event taken from the channel
Dispatch(a, ev, build) ==
    IF ev.tag = "UiEvent"
    THEN handle_ui_event(a, ev, build)
    ELSE update_progress_bar(a, ev.value)

----------------------------------------------------------------------------
(* Rendering: the layout of `impl Widget for &mut App`.                    *)

\* f64::round of n/d for n, d >= 0 (the layout solver rounds its results)
RoundDiv(n, d) == (2 * n + d) \div (2 * d)

\* right_rows of render for a frame of w columns and h > InputHeight rows:
\* the right column starts after the left 25%, the input row takes the
\* bottom 3 lines and the console the rest.
RightX(w) == RoundDiv(w * LeftPercent, 100)
ConsoleRect(w, h) == Rect(RightX(w), 0, w - RightX(w), h - InputHeight)
InputRect(w, h) == Rect(RightX(w), h - InputHeight, w - RightX(w), InputHeight)

\* Mutant of SelectionTest: the lines of both endpoints count as lying
\* between them.
SelectionTest_BetweenInclusive(prev, line_index, char_index, start, end) ==
    IF start # None /\ end # None
    THEN LET start_line == start[1][1]
             start_col == start[1][2]
             end_line == end[1][1]
             end_col == end[1][2]
         IN  \/ (line_index = start_line /\ char_index >= start_col)
             \/ (line_index = end_line /\ char_index <= end_col)
             \/ (line_index >= start_line /\ line_index <= end_line)
    ELSE prev

\* The body of `for (char_index, &ch) in chars.iter().enumerate()`: the new
\* value of the flag in_selection, which is assigned only when both
\* endpoints are Some.
SelectionTest(prev, line_index, char_index, start, end) ==
    IF start # None /\ end # None
    THEN LET start_line == start[1][1]
             start_col == start[1][2]
             end_line == end[1][1]
             end_col == end[1][2]
         IN  \/ (line_index = start_line /\ char_index >= start_col)
             \/ (line_index = end_line /\ char_index <= end_col)
             \/ (line_index > start_line /\ line_index < end_line)
    ELSE prev

\* in_selection after the character char_index of line line_index: the flag
\* starts false on every line and runs through the line's characters.
RECURSIVE in_selection(_, _, _, _)
in_selection(line_index, char_index, start, end) ==
    SelectionTest(IF char_index = 0 THEN FALSE
                  ELSE in_selection(line_index, char_index - 1, start, end),
                  line_index, char_index, start, end)

\* highlighted_content of render: the (line, column) of every character that
\* gets the selection style, lines and columns counted from 0.
highlighted_content(msgs, start, end) ==
    {<<l, c>> \in UNION {{<<i - 1, j - 1>> : j \in 1..Len(msgs[i])} : i \in 1..Len(msgs)} :
        in_selection(l, c, start, end)}

\* Widget::render: self.console_rect = right_rows[0]; self.input_rect = right_rows[1]
render(a, w, h) ==
    [a EXCEPT !.console_rect = ConsoleRect(w, h), !.input_rect = InputRect(w, h)]

----------------------------------------------------------------------------
(* The main thread: App::run.                                              *)

SetApp(a) ==
    /\ input' = a.input
    /\ mode' = a.mode
    /\ progress_counter' = a.progress_counter
    /\ input_rect' = a.input_rect
    /\ console_rect' = a.console_rect
    /\ focus_mode' = a.focus_mode
    /\ messages' = a.messages
    /\ selection_start' = a.selection_start
    /\ selection_end' = a.selection_end
    /\ dragging' = a.dragging

\* The events whose handling stays inside the bounds of the model
Bounded(ev) ==
    /\ (ev.type = "Key" /\ ev.code \in Chars /\ focus_mode = "Input")
          => Len(input.value) < MaxInputLen
    /\ (ev.type = "Key" /\ ev.code = "Enter" /\ focus_mode = "Input")
          => Len(messages) < MaxMessages

\* Mutant of AfterEvent: the loop takes the next event without drawing.
AfterEvent_SkipDraw(a) ==
    IF a.panicked THEN "panicked"
    ELSE IF a.mode = "Quit" THEN "ok"
    ELSE "recv"

\* Mutant of AfterEvent: the loop does not break on Quit.
AfterEvent_NoBreak(a) ==
    IF a.panicked THEN "panicked" ELSE "draw"

\* `if self.mode == AppMode::Quit { break; }` after the match: where the main
\* thread goes next (a panic in the handler unwinds out of run).
AfterEvent(a) ==
    IF a.panicked THEN "panicked"
    ELSE IF a.mode = "Quit" THEN "ok"
    ELSE "draw"

\* One iteration of `for event in rx` up to the draw.  The receiver is
\* dropped when run returns or unwinds.
Iterate(ev) ==
    /\ main_pc = "recv"
    /\ Bounded(ev)
    /\ \E a \in {Dispatch(AppState, ev, build) : build \in Builds} :
          /\ SetApp(a)
          /\ main_pc' = AfterEvent(a)
          /\ rx_alive' = (AfterEvent(a) = "draw")
    /\ event' = ev
    /\ frame' = frame

\* Mutant of Senders: App::start keeps no sender of its own.
Senders_StartKeepsNone ==
    {t \in {"event_tx", "progress_tx"} :
        \/ (t = "event_tx" /\ input_pc = "run")
        \/ (t = "progress_tx" /\ progress_pc = "run")}

\* The senders of the channel that are alive: `tx` of App::start, which lives
\* until run returns, and the clone each source thread owns while it runs.
Senders ==
    {"tx"} \cup
    {t \in {"event_tx", "progress_tx"} :
        \/ (t = "event_tx" /\ input_pc = "run")
        \/ (t = "progress_tx" /\ progress_pc = "run")}

\* `for event in rx`: the next event of the channel; with the channel empty
\* the iterator blocks while a sender is alive and ends the loop, so that
\* run returns Ok(()), once none is.
RunRecv ==
    IF queue # <<>>
    THEN /\ Iterate(Head(queue))
         /\ queue' = Tail(queue)
         /\ UNCHANGED <<input_pc, progress_pc, progress_next>>
    ELSE /\ main_pc = "recv"
         /\ Senders = {}
         /\ main_pc' = "ok"
         /\ rx_alive' = FALSE
         /\ UNCHANGED <<app_vars, frame, event, queue, input_pc, progress_pc,
                        progress_next>>

\* self.draw(terminal)?  succeeding
RunDraw ==
    /\ main_pc = "draw"
    /\ SetApp(render(AppState, TermW, TermH))
    /\ frame' = highlighted_content(messages, selection_start, selection_end)
    /\ main_pc' = "recv"
    /\ event' = NoEvent
    /\ UNCHANGED thread_vars

\* self.draw(terminal)?  failing: run returns the error
RunDrawFail ==
    /\ main_pc = "draw"
    /\ main_pc' = "err"
    /\ rx_alive' = FALSE
    /\ UNCHANGED <<app_vars, frame, event, queue, input_pc, progress_pc, progress_next>>

----------------------------------------------------------------------------
(* The event sources.                                                      *)

\* tui::input_thread: event::read() returned Ok(ev); the send fails once the
\* receiver is gone and `?` returns the error to the thread's closure, which
\* drops it.
InputSend(ev) ==
    /\ input_pc = "run"
    /\ IF rx_alive
       THEN /\ Len(queue) < MaxQueue
            /\ queue' = Append(queue, ev)
            /\ UNCHANGED input_pc
       ELSE /\ input_pc' = "returned_err"
            /\ UNCHANGED queue
    /\ UNCHANGED <<app_vars, frame, event, main_pc, rx_alive, progress_pc, progress_next>>

\* tui::input_thread: event::read() returned Err, the loop ends with Ok(())
InputReadFail ==
    /\ input_pc = "run"
    /\ input_pc' = "returned_ok"
    /\ UNCHANGED <<app_vars, frame, event, main_pc, queue, rx_alive, progress_pc, progress_next>>

\* progress_task: one send of the loop, or the final send of None.  A failed
\* send returns Err, which the closure of App::start unwraps: the thread
\* panics.
ProgressSend ==
    /\ progress_pc = "run"
    /\ IF rx_alive
       THEN /\ Len(queue) < MaxQueue
            /\ IF progress_next < ProgressEnd
               THEN /\ queue' = Append(queue, CounterChanged(Some(progress_next)))
                    /\ progress_next' = progress_next + 1
                    /\ UNCHANGED progress_pc
               ELSE /\ queue' = Append(queue, CounterChanged(None))
                    /\ progress_pc' = "returned_ok"
                    /\ UNCHANGED progress_next
       ELSE /\ progress_pc' = "panicked"
            /\ UNCHANGED <<queue, progress_next>>
    /\ UNCHANGED <<app_vars, frame, event, main_pc, rx_alive, input_pc>>

----------------------------------------------------------------------------
(* Specifications.                                                         *)

\* App::new followed by App::start: the channel is empty and the three
\* threads are spawned.
Init ==
    /\ input = NewApp.input
    /\ mode = NewApp.mode
    /\ progress_counter = NewApp.progress_counter
    /\ input_rect = NewApp.input_rect
    /\ console_rect = NewApp.console_rect
    /\ focus_mode = NewApp.focus_mode
    /\ messages = NewApp.messages
    /\ selection_start = NewApp.selection_start
    /\ selection_end = NewApp.selection_end
    /\ dragging = NewApp.dragging
    /\ frame = {}
    /\ event = NoEvent
    /\ main_pc = "recv"
    /\ queue = <<>>
    /\ rx_alive = TRUE
    /\ input_pc = "run"
    /\ progress_pc = "run"
    /\ progress_next = 0

\* The interaction engine: App::run fed every sequence of UI events.
RunUi ==
    /\ \E ev \in UiEvents : Iterate(ev)
    /\ UNCHANGED <<queue, input_pc, progress_pc, progress_next>>

NextUi == RunUi \/ RunDraw

SpecUi == Init /\ [][NextUi]_vars


\* One render pass on its own: the main thread stands before self.draw with
\* an Up event handled, up to RenderLines messages of one length up to
\* RenderCols, and each selection endpoint None or any cell of that grid.
RenderCells == {<<l, c>> : l \in 0..(RenderLines - 1), c \in 0..(RenderCols - 1)}
RenderEndpoints == {None} \cup {Some(p) : p \in RenderCells}
RenderMessages ==
    {[i \in 1..n |-> [j \in 1..len |-> "a"]] : n \in 0..RenderLines, len \in 0..RenderCols}

InitRender ==
    /\ input = NewApp.input
    /\ mode = "Run"
    /\ progress_counter = None
    /\ input_rect = InputRect(TermW, TermH)
    /\ console_rect = ConsoleRect(TermW, TermH)
    /\ focus_mode = "Console"
    /\ messages \in RenderMessages
    /\ selection_start \in RenderEndpoints
    /\ selection_end \in RenderEndpoints
    /\ dragging = FALSE
    /\ frame = {}
    /\ event = MouseEvent("UpLeft", 0, 0)
    /\ main_pc = "draw"
    /\ queue = <<>>
    /\ rx_alive = TRUE
    /\ input_pc = "run"
    /\ progress_pc = "run"
    /\ progress_next = 0

NextRender == RunDraw

SpecRender == InitRender /\ [][NextRender]_vars

\* The whole program: the main loop and the two sources that send, with the
\* terminal producing two keys, a click into the top right corner (inside
\* the console once it is drawn) and a drag to the top left corner (left of
\* the console).
TerminalEvents ==
    {KeyEvent("Esc"), KeyEvent("Tab"),
     MouseEvent("DownLeft", 0, TermW - 1), MouseEvent("DragLeft", 0, 0)}

InputThread == \E ev \in TerminalEvents : InputSend(ev)

Next ==
    \/ RunRecv
    \/ RunDraw
    \/ RunDrawFail
    \/ InputThread
    \/ InputReadFail
    \/ ProgressSend

Spec == Init /\ [][Next]_vars

----------------------------------------------------------------------------
(* Properties.                                                             *)

\* The main thread has just matched `event` and has not drawn yet.
Handled == main_pc \in {"draw", "ok", "panicked"} /\ event.tag = "UiEvent"

\* (row, col) lies inside rect, written out from the rectangle's fields.
InRegion(rect, row, col) ==
    /\ rect.y <= row /\ row <= rect.y + rect.height - 1
    /\ rect.x <= col /\ col <= rect.x + rect.width - 1

\* C1: in every reachable state, if dragging is true then focus_mode is
\* Console and selection_start is set.
C1_DraggingImpliesConsoleAndStart ==
    dragging => (focus_mode = "Console" /\ selection_start # None)

\* C2: in every reachable state, selection_end is set only if
\* selection_start is set.
C2_EndOnlyWithStart ==
    selection_end # None => selection_start # None

\* C3: a source whose send fails because the receiver is gone ends without
\* an error or panic surfacing from its thread.
C3_SourcesEndSilently ==
    /\ input_pc # "panicked"
    /\ progress_pc # "panicked"

\* C4: once mode is Quit it stays Quit, the main loop takes no further event
\* from the channel and draws no further frame.
C4_QuitIsFinal ==
    [][mode = "Quit" =>
          /\ mode' = "Quit"
          /\ event' = event
          /\ queue' = queue
          /\ main_pc' = main_pc
          /\ UNCHANGED app_vars]_vars

\* C4 witness: the loop has quit with an event left in the channel and the
\* input source has since found the channel closed.
C4_Witness ==
    /\ mode = "Quit"
    /\ main_pc = "ok"
    /\ queue # <<>>
    /\ input_pc = "returned_err"

\* The main thread has just applied a CounterChanged event.
CounterApplied == main_pc # "recv" /\ event.tag = "CounterChanged"

\* No CounterChanged event waits in the channel.
NoCounterQueued == \A i \in 1..Len(queue) : queue[i].tag # "CounterChanged"

HandlesUi == main_pc = "recv" /\ main_pc' # "recv" /\ event'.tag = "UiEvent"

\* C6: a left-button drag never changes selection_start; of the application
\* state only selection_end may change.
C6_DragMovesOnlyEnd ==
    [][(HandlesUi /\ event'.kind = "DragLeft") =>
          /\ selection_start' = selection_start
          /\ UNCHANGED <<input, mode, progress_counter, input_rect, console_rect,
                         focus_mode, messages, dragging>>]_vars

\* C6 witness: a drag has moved selection_end away from a set selection_start.
C6_Witness ==
    /\ Handled
    /\ main_pc = "draw"
    /\ event.kind = "DragLeft"
    /\ selection_start # None
    /\ selection_end # None
    /\ selection_end # selection_start

\* C7: a left-button down inside console_rect (and not inside input_rect) at
\* region-local (r, c) = (row - console_rect.y, col - console_rect.x) leaves
\* selection_start = selection_end = (r, c), dragging true and focus Console.
C7_DownInConsoleStartsSelection ==
    [][(/\ HandlesUi
        /\ event'.kind = "DownLeft"
        /\ InRegion(console_rect, event'.row, event'.column)
        /\ ~InRegion(input_rect, event'.row, event'.column)) =>
          /\ selection_start' =
                Some(<<event'.row - console_rect.y, event'.column - console_rect.x>>)
          /\ selection_end' = selection_start'
          /\ dragging' = TRUE
          /\ focus_mode' = "Console"]_vars

\* C7 witness: a click on the console cell one row and two columns from the
\* console's corner has started the selection at (1, 2).
C7_Witness ==
    /\ Handled
    /\ event.kind = "DownLeft"
    /\ event.row = console_rect.y + 1
    /\ event.column = console_rect.x + 2
    /\ InRegion(console_rect, event.row, event.column)
    /\ selection_start = Some(<<1, 2>>)
    /\ dragging

\* C8: a left-button down outside both input_rect and console_rect leaves
\* both selection endpoints None and dragging false.
C8_DownOutsideClears ==
    [][(/\ HandlesUi
        /\ event'.kind = "DownLeft"
        /\ ~InRegion(console_rect, event'.row, event'.column)
        /\ ~InRegion(input_rect, event'.row, event'.column)) =>
          /\ selection_start' = None
          /\ selection_end' = None
          /\ dragging' = FALSE]_vars

\* C8 witness: with both regions drawn and the console focused by an earlier
\* click, a click outside both regions has been handled.
C8_Witness ==
    /\ Handled
    /\ event.kind = "DownLeft"
    /\ console_rect # ZeroRect
    /\ ~InRegion(console_rect, event.row, event.column)
    /\ ~InRegion(input_rect, event.row, event.column)
    /\ focus_mode = "Console"
    /\ selection_start = None
    /\ ~dragging

\* C9: Esc handled while focus is Input sets mode to Quit; Esc handled while
\* focus is Console leaves mode unchanged and sets both selection endpoints
\* to None.
C9_EscByFocus ==
    [][(HandlesUi /\ event'.type = "Key" /\ event'.code = "Esc") =>
          /\ focus_mode = "Input" => mode' = "Quit"
          /\ focus_mode = "Console" =>
                /\ mode' = mode
                /\ mode' = "Run"
                /\ selection_start' = None
                /\ selection_end' = None]_vars

\* C9 witness: Esc has been handled with the console focused during a drag,
\* and the program still runs.
C9_Witness ==
    /\ Handled
    /\ event.code = "Esc"
    /\ focus_mode = "Console"
    /\ dragging
    /\ mode = "Run"
    /\ selection_start = None

\* C10: Enter handled while focus is Input makes messages one longer, its new
\* last element the input value held before the event, and leaves the input
\* value empty.
C10_EnterPushesInput ==
    [][(HandlesUi /\ event'.type = "Key" /\ event'.code = "Enter"
            /\ focus_mode = "Input") =>
          /\ Len(messages') = Len(messages) + 1
          /\ messages'[Len(messages')] = input.value
          /\ SubSeq(messages', 1, Len(messages)) = messages
          /\ input'.value = <<>>]_vars

\* C10 witness: Enter has pushed a typed, non-empty input value.
C10_Witness ==
    /\ Handled
    /\ event.code = "Enter"
    /\ messages # <<>>
    /\ messages[Len(messages)] # <<>>
    /\ input.value = <<>>

\* The frame on screen is the one of the state: a render pass has completed
\* and no event has been handled since.
Rendered == main_pc = "recv" /\ event = NoEvent

\* The characters of the console: (line, column) counted from 0.
MessageCells ==
    UNION {{<<i - 1, j - 1>> : j \in 1..Len(messages[i])} : i \in 1..Len(messages)}

\* C11: with both endpoints set, (sl, sc) and (el, ec) in either order, the
\* render pass highlights the character at (line, col) iff line = sl and
\* col >= sc, or line = el and col <= ec, or sl < line < el; with an endpoint
\* None it highlights nothing.  With start (1,2) and end (3,1) line 2 is
\* highlighted in full and lines 0 and 4 not at all; with start (3,1) and end
\* (1,2) nothing of line 2 is highlighted.
C11_HighlightFormula ==
    Rendered =>
       /\ (selection_start = None \/ selection_end = None) => frame = {}
       /\ (selection_start # None /\ selection_end # None) =>
             LET sl == selection_start[1][1]
                 sc == selection_start[1][2]
                 el == selection_end[1][1]
                 ec == selection_end[1][2]
             IN  \A p \in MessageCells :
                    p \in frame <=>
                       \/ (p[1] = sl /\ p[2] >= sc)
                       \/ (p[1] = el /\ p[2] <= ec)
                       \/ (sl < p[1] /\ p[1] < el)
       /\ frame \subseteq MessageCells
       /\ (selection_start = Some(<<1, 2>>) /\ selection_end = Some(<<3, 1>>)) =>
             \A p \in MessageCells :
                /\ p[1] = 2 => p \in frame
                /\ p[1] \in {0, 4} => p \notin frame
       /\ (selection_start = Some(<<3, 1>>) /\ selection_end = Some(<<1, 2>>)) =>
             \A p \in MessageCells : p[1] = 2 => p \notin frame

\* C11 witness: five lines of three characters drawn with start (1,2) and
\* end (3,1).
C11_Witness ==
    /\ Rendered
    /\ Len(messages) = 5
    /\ Len(messages[1]) = 3
    /\ selection_start = Some(<<1, 2>>)
    /\ selection_end = Some(<<3, 1>>)
    /\ frame = {<<1, 2>>, <<2, 0>>, <<2, 1>>, <<2, 2>>, <<3, 0>>, <<3, 1>>}

C13_ConsoleKeysFrame ==
    [][(HandlesUi /\ event'.type = "Key" /\ focus_mode = "Console") =>
          /\ UNCHANGED <<mode, messages, input, progress_counter, input_rect,
                         console_rect, dragging>>
          /\ event'.code = "Esc" =>
                /\ selection_start' = None
                /\ selection_end' = None
                /\ focus_mode' = focus_mode
          /\ event'.code = "Tab" =>
                /\ focus_mode' = "Input"
                /\ UNCHANGED <<selection_start, selection_end>>
          /\ event'.code \notin {"Esc", "Tab"} =>
                UNCHANGED <<focus_mode, selection_start, selection_end>>]_vars

\* C13 witness: Tab has been handled during a drag in the console, with text
\* in the input line and a message in the console.
C13_Witness ==
    /\ Handled
    /\ event.code = "Tab"
    /\ focus_mode = "Input"
    /\ dragging
    /\ selection_start # None
    /\ input.value # <<>>
    /\ mode = "Run"

\* C15: a left-button down handled while both regions are still the zero
\* rectangle hits neither region, whatever its position: focus_mode is
\* unchanged, both selection endpoints are None and dragging is false.
C15_DownBeforeFirstRender ==
    [][(/\ HandlesUi
        /\ event'.kind = "DownLeft"
        /\ console_rect = ZeroRect
        /\ input_rect = ZeroRect) =>
          /\ focus_mode' = focus_mode
          /\ selection_start' = None
          /\ selection_end' = None
          /\ dragging' = FALSE]_vars

\* C15 witness: a click at (0,0) has been handled before any render pass.
C15_Witness ==
    /\ Handled
    /\ event.kind = "DownLeft"
    /\ event.row = 0
    /\ event.column = 0
    /\ console_rect = ZeroRect
    /\ input_rect = ZeroRect
    /\ main_pc = "draw"

\* C16: a left-button up sets dragging to false and leaves selection_start,
\* selection_end, focus_mode, mode, messages and progress unchanged.
C16_UpClearsOnlyDragging ==
    [][(HandlesUi /\ event'.kind = "UpLeft") =>
          /\ dragging' = FALSE
          /\ UNCHANGED <<selection_start, selection_end, focus_mode, mode, messages,
                         progress_counter, input, input_rect, console_rect>>]_vars

\* C16 witness: the button has been released after a drag that moved
\* selection_end, and the selection is still there.
C16_Witness ==
    /\ Handled
    /\ event.kind = "UpLeft"
    /\ ~dragging
    /\ focus_mode = "Console"
    /\ selection_start # None
    /\ selection_end # None
    /\ selection_end # selection_start

\* C17: every left-button drag handled while dragging is true and focus is
\* Console has its row >= console_rect.y and its column >= console_rect.x, so
\* that the u16 subtractions do not underflow and the handler does not panic.
C17_DragNeverUnderflows ==
    [][(HandlesUi /\ event'.kind = "DragLeft" /\ dragging /\ focus_mode = "Console") =>
          /\ event'.row >= console_rect.y
          /\ event'.column >= console_rect.x
          /\ main_pc' # "panicked"]_vars

\* C18: a selection with both endpoints on one line and start column <= end
\* column (a click without a drag in particular) makes the render pass
\* highlight exactly the characters of that line in columns start..end.
C18_OneLineSelection ==
    (/\ Rendered
     /\ selection_start # None
     /\ selection_end # None
     /\ selection_start[1][1] = selection_end[1][1]
     /\ selection_start[1][2] <= selection_end[1][2]) =>
        frame = {p \in MessageCells :
                    /\ p[1] = selection_start[1][1]
                    /\ selection_start[1][2] <= p[2]
                    /\ p[2] <= selection_end[1][2]}

\* The console cell (row, col) shows character j of message i: the messages
\* are drawn unwrapped from the top left of the inside of the bordered block.
ShowsChar(row, col, i, j) ==
    /\ i < Len(messages)
    /\ j < Len(messages[i + 1])
    /\ row = console_rect.y + 1 + i
    /\ col = console_rect.x + 1 + j
    /\ row <= console_rect.y + console_rect.height - 2
    /\ col <= console_rect.x + console_rect.width - 2

\* C19: a left-button down on the cell that shows character j of message i
\* sets selection_start to (i, j).
C19_ClickSelectsCharUnderPointer ==
    [][(HandlesUi /\ event'.kind = "DownLeft") =>
          \A i \in 0..(Len(messages) - 1) : \A j \in 0..(Len(messages[i + 1]) - 1) :
             ShowsChar(event'.row, event'.column, i, j) =>
                selection_start' = Some(<<i, j>>)]_vars

\* A step in which the main loop takes an event from the channel.
TakesEvent == Len(queue') < Len(queue)

\* C14: the main loop takes one event at a time with a render pass after
\* each: an event is taken only at the top of the loop and leaves the loop
\* before its draw (or ended), and the top of the loop is reached again only
\* by a completed render pass, which writes both regions.
C14_RenderAfterEachEvent ==
    [][/\ TakesEvent =>
             /\ main_pc = "recv"
             /\ main_pc' \in {"draw", "ok", "panicked"}
             /\ Len(queue') = Len(queue) - 1
       /\ (main_pc # "recv" /\ main_pc' = "recv") =>
             /\ main_pc = "draw"
             /\ console_rect' = ConsoleRect(TermW, TermH)
             /\ input_rect' = InputRect(TermW, TermH)
             /\ queue' = queue
       /\ (main_pc = "draw" /\ main_pc' # "draw") => main_pc' \in {"recv", "err"}]_vars

\* C14 witness: a render pass has completed while another event was already
\* waiting in the channel, and the loop is back at its top.
C14_Witness ==
    /\ main_pc = "recv"
    /\ event = NoEvent
    /\ console_rect = ConsoleRect(TermW, TermH)
    /\ Len(queue) >= 2
    /\ focus_mode = "Console"

\* C20: run has returned Ok only with mode Quit; and with the channel empty,
\* the input source stopped and the progress source finished, the main loop
\* stays blocked on the channel.
C20_OkOnlyOnQuit ==
    /\ main_pc = "ok" => mode = "Quit"
    /\ (main_pc = "recv" /\ queue = <<>> /\ input_pc # "run" /\ progress_pc # "run")
          => ~ENABLED RunRecv

\* C20 witness: the input source has stopped, the progress source has
\* finished its run and every event has been drawn: the loop still waits.
C20_Witness ==
    /\ main_pc = "recv"
    /\ queue = <<>>
    /\ input_pc = "returned_ok"
    /\ progress_pc = "returned_ok"
    /\ mode = "Run"
    /\ rx_alive

====
